---- MODULE Spec2Model ----
(***************************************************************************)
(* The foreign-call surface of the RLN library (ffi.rs) over the RLN core  *)
(* it wraps.  The six entry points and the Buffer conversions are          *)
(* translated from ffi.rs.  The core behind the handle                     *)
(* (RLN::new_with_raw_params, update_next, generate_proof, verify, hash,   *)
(* key_gen, the hasher and the Merkle tree) belongs to the crate's modules *)
(* public, circuit and poseidon; it is modelled from sections 3, 4 and 6   *)
(* of the design document.                                                 *)
(*                                                                         *)
(* Field elements are terms of an ideal (collision-free) hash: a term is a *)
(* sequence of integers in prefix notation, Atom(a) = <<a>> for a >= 0     *)
(* and Hasher(<<t1..tn>>) = <<-(n+1)>> \o t1 \o ... \o tn.                 *)
(* A byte range is a sequence of integers; on the wire an element is       *)
(* framed by its width followed by its cells, which stands for the fixed   *)
(* width of the little-endian encoding.                                    *)
(***************************************************************************)
EXTENDS Integers, Sequences, FiniteSets, TLC

\* Largest tree depth a context is created with.
MaxDepth == 2
\* Epochs are 1..MaxEpoch.
MaxEpoch == 2

VARIABLES ctx, proof_buffer, built, inserted, last

vars == <<ctx, proof_buffer, built, inserted, last>>

-----------------------------------------------------------------------------
(* Field elements and the algebraic hasher (spec.md 4.3) *)

Atom(a) == <<a>>

RECURSIVE Flatten(_)
Flatten(xs) == IF Len(xs) = 0 THEN <<>> ELSE Head(xs) \o Flatten(Tail(xs))

\* Ordered, deterministic, collision-free hash of n field elements.
Hasher(xs) == <<-(Len(xs) + 1)>> \o Flatten(xs)

\* A canonical element: an atom is one cell wide, a hash value starts with
\* its arity marker.
IsElement(e) == Len(e) >= 1 /\ (e[1] >= 0 => Len(e) = 1)

-----------------------------------------------------------------------------
(* Wire format (spec.md 6): element granularity, one element after another *)

write_le(e) == <<Len(e)>> \o e

RECURSIVE WriteAll(_)
WriteAll(es) == IF Len(es) = 0 THEN <<>> ELSE write_le(Head(es)) \o WriteAll(Tail(es))

ReadErr == [ok |-> FALSE, elems |-> <<>>]

\* Reads exactly n elements from the front of bytes; fails when fewer than n
\* are available or one of them is not canonical.
RECURSIVE read_inputs(_, _)
read_inputs(bytes, n) ==
    IF n = 0 THEN [ok |-> TRUE, elems |-> <<>>]
    ELSE IF Len(bytes) = 0 THEN ReadErr
    ELSE IF bytes[1] < 1 \/ Len(bytes) < 1 + bytes[1] THEN ReadErr
    ELSE LET w == bytes[1]
             e == SubSeq(bytes, 2, 1 + w)
             r == read_inputs(SubSeq(bytes, 2 + w, Len(bytes)), n - 1)
         IN  IF ~IsElement(e) \/ ~r.ok THEN ReadErr
             ELSE [ok |-> TRUE, elems |-> <<e>> \o r.elems]

-----------------------------------------------------------------------------
(* Buffer (ffi.rs 8-28): a pointer, modelled by the bytes it points to,    *)
(* and a length                                                            *)

NoBuffer == [ptr |-> <<>>, len |-> 0]

\* impl From<&[u8]> for Buffer
BufferFromShort(src) == [ptr |-> src, len |-> Len(src) - 1]
BufferFrom(src) == [ptr |-> src, len |-> Len(src)]

\* impl From<&Buffer> for &[u8]: slice::from_raw_parts(ptr, len)
SliceFrom(buf) == SubSeq(buf.ptr, 1, buf.len)

-----------------------------------------------------------------------------
(* The RLN core behind the handle (spec.md 3 and 4)                        *)

\* The content of a slot no member occupies.
EmptyLeaf == Atom(0)

Pow2(d) == 2 ^ d

\* The binary Merkle root of the full leaf sequence.
RECURSIVE MerkleRoot(_)
MerkleRoot(slots) ==
    IF Len(slots) = 1 THEN slots[1]
    ELSE LET h == Len(slots) \div 2
         IN  Hasher(<<MerkleRoot(SubSeq(slots, 1, h)),
                      MerkleRoot(SubSeq(slots, h + 1, Len(slots)))>>)

NoContext ==
    [live |-> FALSE, depth |-> 0, index |-> 0, params |-> <<>>,
     slots |-> <<>>, root |-> <<>>]

\* The serialized parameters of a circuit of depth d.
ParamsFor(d) == write_le(Atom(d))

\* 4.1: validates the depth against the parameter blob; an empty accumulator
\* of capacity 2^D.
new_with_raw_params(merkle_depth, index, raw) ==
    LET p == read_inputs(raw, 1)
    IN  IF ~p.ok THEN [ok |-> FALSE, rln |-> NoContext]
        ELSE IF p.elems[1] # Atom(merkle_depth) THEN [ok |-> FALSE, rln |-> NoContext]
        ELSE LET empty == [i \in 1..Pow2(merkle_depth) |-> EmptyLeaf]
             IN  [ok |-> TRUE,
                  rln |-> [live |-> TRUE, depth |-> merkle_depth, index |-> index,
                           params |-> raw, slots |-> empty,
                           root |-> MerkleRoot(empty)]]

FilledSlots(rln) == {i \in 1..Len(rln.slots) : rln.slots[i] # EmptyLeaf}
EmptySlots(rln) == {i \in 1..Len(rln.slots) : rln.slots[i] = EmptyLeaf}

Lowest(S) == CHOOSE i \in S : \A j \in S : i <= j

\* 4.2: insert at the first empty slot, recompute the root; CapacityError when
\* no empty slot remains.
RLN_update_next(rln, input) ==
    LET r == read_inputs(input, 1)
    IN  IF ~r.ok THEN [ok |-> FALSE, rln |-> rln]
        ELSE IF EmptySlots(rln) = {} THEN [ok |-> FALSE, rln |-> rln]
        ELSE LET slots == [rln.slots EXCEPT ![Lowest(EmptySlots(rln))] = r.elems[1]]
             IN  [ok |-> TRUE,
                  rln |-> [rln EXCEPT !.slots = slots, !.root = MerkleRoot(slots)]]

\* 4.5 (b): the nullifier, a one-way function of (secret, epoch).
Nullifier(secret, epoch) == Hasher(<<secret, epoch>>)

\* The zero-knowledge argument for a statement (root, nullifier, digest, epoch).
Argument(root, nullifier, digest, epoch) == Hasher(<<root, nullifier, digest, epoch>>)

IsMember(rln, secret) == \E i \in 1..Len(rln.slots) : rln.slots[i] = Hasher(<<secret>>)

\* 4.5: signal = epoch, digest, secret; MembershipError unless Hasher(secret) is
\* a leaf; proof = argument bytes (with their blinding) followed by the public
\* inputs root, nullifier, digest, epoch.
RLN_generate_proof(rln, input, blind) ==
    LET r == read_inputs(input, 3)
    IN  IF ~r.ok THEN [ok |-> FALSE, out |-> <<>>]
        ELSE LET epoch == r.elems[1]
                 digest == r.elems[2]
                 secret == r.elems[3]
                 nf == Nullifier(secret, epoch)
             IN  IF ~IsMember(rln, secret) THEN [ok |-> FALSE, out |-> <<>>]
                 ELSE [ok |-> TRUE,
                       out |-> WriteAll(<<Argument(rln.root, nf, digest, epoch),
                                          Atom(blind), rln.root, nf, digest, epoch>>)]

\* 4.6: ProofFormatError on malformed bytes; otherwise the argument is checked
\* against the stored root and the proof's declared public inputs.
RLN_verify(rln, proof) ==
    LET r == read_inputs(proof, 6)
    IN  IF ~r.ok THEN [ok |-> FALSE, verified |-> FALSE]
        ELSE [ok |-> TRUE,
              verified |-> r.elems[1] =
                  Argument(rln.root, r.elems[4], r.elems[5], r.elems[6])]

\* 4.3: BoundsError when fewer than n elements are supplied.
RLN_hash(rln, input, n) ==
    LET r == read_inputs(input, n)
    IN  IF ~r.ok THEN [ok |-> FALSE, out |-> <<>>]
        ELSE [ok |-> TRUE, out |-> write_le(Hasher(r.elems))]

\* 4.4: entropy is what the randomness source delivers: a failure, or a secret.
RLN_key_gen(rln, entropy) ==
    IF ~entropy.ok THEN [ok |-> FALSE, out |-> <<>>]
    ELSE [ok |-> TRUE,
          out |-> WriteAll(<<entropy.secret, Hasher(<<entropy.secret>>)>>)]

-----------------------------------------------------------------------------
(* The entry points of ffi.rs.  Each yields the returned boolean, the      *)
(* content of its output parameter after the call, and the context.        *)

new_circuit_from_params(merkle_depth, index, parameters_buffer, handle) ==
    LET buffer == SliceFrom(parameters_buffer)
        r == new_with_raw_params(merkle_depth, index, buffer)
    IN  IF ~r.ok THEN [ret |-> FALSE, ctx |-> handle]
        ELSE [ret |-> TRUE, ctx |-> r.rln]

update_next_ignore_err(rln, input_buffer) ==
    [ret |-> TRUE, ctx |-> RLN_update_next(rln, SliceFrom(input_buffer)).rln]

update_next_on_copy(rln, input_buffer) ==
    [ret |-> RLN_update_next(rln, SliceFrom(input_buffer)).ok, ctx |-> rln]

update_next(rln, input_buffer) ==
    LET input_data == SliceFrom(input_buffer)
        r == RLN_update_next(rln, input_data)
    IN  IF ~r.ok THEN [ret |-> FALSE, ctx |-> rln]
        ELSE [ret |-> TRUE, ctx |-> r.rln]

generate_proof_ignore_err(rln, input_buffer, output_buffer, blind) ==
    [ret |-> TRUE,
     out |-> BufferFrom(RLN_generate_proof(rln, SliceFrom(input_buffer), blind).out),
     ctx |-> rln]

generate_proof(rln, input_buffer, output_buffer, blind) ==
    LET input_data == SliceFrom(input_buffer)
        r == RLN_generate_proof(rln, input_data, blind)
    IN  IF ~r.ok THEN [ret |-> FALSE, out |-> output_buffer, ctx |-> rln]
        ELSE [ret |-> TRUE, out |-> BufferFrom(r.out), ctx |-> rln]

verify_codes_swapped(rln, proof_buffer_arg, result) ==
    LET r == RLN_verify(rln, SliceFrom(proof_buffer_arg))
    IN  IF ~r.ok THEN [ret |-> FALSE, result |-> result, ctx |-> rln]
        ELSE [ret |-> TRUE, result |-> IF r.verified THEN 1 ELSE 0, ctx |-> rln]

verify_always_accept(rln, proof_buffer_arg, result) ==
    LET r == RLN_verify(rln, SliceFrom(proof_buffer_arg))
    IN  IF ~r.ok THEN [ret |-> FALSE, result |-> result, ctx |-> rln]
        ELSE [ret |-> TRUE, result |-> 0, ctx |-> rln]

verify_result_on_err(rln, proof_buffer_arg, result) ==
    LET r == RLN_verify(rln, SliceFrom(proof_buffer_arg))
    IN  IF ~r.ok THEN [ret |-> FALSE, result |-> 1, ctx |-> rln]
        ELSE [ret |-> TRUE, result |-> IF r.verified THEN 0 ELSE 1, ctx |-> rln]

verify(rln, proof_buffer_arg, result) ==
    LET proof_data == SliceFrom(proof_buffer_arg)
        r == RLN_verify(rln, proof_data)
    IN  IF ~r.ok THEN [ret |-> FALSE, result |-> result, ctx |-> rln]
        ELSE IF r.verified THEN [ret |-> TRUE, result |-> 0, ctx |-> rln]
        ELSE [ret |-> TRUE, result |-> 1, ctx |-> rln]

hash_len_from_buffer(rln, inputs_buffer, input_len, output_buffer) ==
    LET r == RLN_hash(rln, SliceFrom(inputs_buffer), inputs_buffer.len)
    IN  IF ~r.ok THEN [ret |-> FALSE, out |-> output_buffer, ctx |-> rln]
        ELSE [ret |-> TRUE, out |-> BufferFrom(r.out), ctx |-> rln]

hash(rln, inputs_buffer, input_len, output_buffer) ==
    LET input_data == SliceFrom(inputs_buffer)
        n == input_len
        r == RLN_hash(rln, input_data, n)
    IN  IF ~r.ok THEN [ret |-> FALSE, out |-> output_buffer, ctx |-> rln]
        ELSE [ret |-> TRUE, out |-> BufferFrom(r.out), ctx |-> rln]

key_gen_registering(rln, keypair_buffer, entropy) ==
    LET r == RLN_key_gen(rln, entropy)
    IN  IF ~r.ok THEN [ret |-> FALSE, out |-> keypair_buffer, ctx |-> rln]
        ELSE [ret |-> TRUE, out |-> BufferFrom(r.out),
              ctx |-> RLN_update_next(rln, write_le(Hasher(<<entropy.secret>>))).rln]

key_gen(rln, keypair_buffer, entropy) ==
    LET r == RLN_key_gen(rln, entropy)
    IN  IF ~r.ok THEN [ret |-> FALSE, out |-> keypair_buffer, ctx |-> rln]
        ELSE [ret |-> TRUE, out |-> BufferFrom(r.out), ctx |-> rln]

-----------------------------------------------------------------------------
(* The callers' inputs *)

Secrets == {Atom(1), Atom(2)}
Epochs == {Atom(e) : e \in 1..MaxEpoch}
Digests == {Atom(7), Atom(8)}
Blinds == {0, 1}
HashElements == {Atom(1), Atom(2)}
HashBuffers == {<<a>> : a \in HashElements} \cup {<<a, b>> : a, b \in HashElements}
HashLens == {1, 2}
\* The hash and key generation inputs of the main specification; the
\* specification SpecHash takes them from the full sets above.
HashBuffer0 == <<Atom(1), Atom(2)>>
HashLens0 == {1, 2, 3}
Secret0 == Atom(1)

\* The epoch, digest and blinding of the signals of the main specification;
\* the specification SpecSignals varies all three.
Epoch0 == Atom(1)
Digest0 == Atom(7)

\* A borrowed input: the caller's own (pointer, length) over its bytes.
InputBuffer(bytes) == [ptr |-> bytes, len |-> Len(bytes)]

\* Parameter blobs: the one of each depth, and a malformed one.
ParameterBlobs == {InputBuffer(ParamsFor(d)) : d \in 1..MaxDepth} \cup {NoBuffer}

SignalBuffer(epoch, digest, secret) == InputBuffer(WriteAll(<<epoch, digest, secret>>))

\* What a caller may hand to verify: the proof it holds, that proof cut short,
\* that proof with its declared epoch replaced, and bytes that are no proof.
Retarget(buf) == InputBuffer([buf.ptr EXCEPT ![Len(buf.ptr)] = @ + 1])
ProofCandidates(held) ==
    IF held.len = 0 THEN {InputBuffer(<<0>>)}
    ELSE {held, [held EXCEPT !.len = @ - 1], Retarget(held), InputBuffer(<<0>>)}

NoSignal == [secret |-> <<>>, epoch |-> <<>>, root |-> <<>>]

Call(op, pre, input, n, ret, out, code) ==
    [op |-> op, pre |-> pre, input |-> input, n |-> n, ret |-> ret,
     out |-> out, code |-> code]

-----------------------------------------------------------------------------
(* State: the context behind the handle, the proof the caller holds with   *)
(* the signal and root it was built from, the commitments inserted so far, *)
(* and the latest call with its outcome.                                   *)

Init ==
    /\ ctx = NoContext
    /\ proof_buffer = NoBuffer
    /\ built = NoSignal
    /\ inserted = <<>>
    /\ last = Call("none", NoContext, NoBuffer, 0, TRUE, NoBuffer, -1)

NewCircuitWith(depths) ==
    /\ ~ctx.live
    /\ \E d \in depths, params \in ParameterBlobs :
       \E r \in {new_circuit_from_params(d, Pow2(d) - 2, params, ctx)} :
          /\ ctx' = r.ctx
          /\ last' = Call("new_circuit_from_params", ctx, params, d, r.ret,
                          NoBuffer, -1)
    /\ UNCHANGED <<proof_buffer, built, inserted>>

NewCircuit == NewCircuitWith(1..MaxDepth)

UpdateNext ==
    /\ ctx.live
    /\ \E s \in Secrets :
       \E input \in {InputBuffer(write_le(Hasher(<<s>>)))} :
       \E r \in {update_next(ctx, input)} :
          /\ ctx' = r.ctx
          /\ inserted' = IF r.ret THEN Append(inserted, Hasher(<<s>>)) ELSE inserted
          /\ last' = Call("update_next", ctx, input, 0, r.ret, NoBuffer, -1)
    /\ UNCHANGED <<proof_buffer, built>>

\* The output parameter is a fresh buffer; keep: the caller holds on to the
\* proof of a successful call, for later verification.
GenerateProofWith(epochs, digests, blinds) ==
    /\ ctx.live
    /\ \E s \in Secrets, e \in epochs, m \in digests, blind \in blinds, keep \in BOOLEAN :
       \E input \in {SignalBuffer(e, m, s)} :
       \E r \in {generate_proof(ctx, input, NoBuffer, blind)} :
          /\ ctx' = r.ctx
          /\ proof_buffer' = IF keep /\ r.ret THEN r.out ELSE proof_buffer
          /\ built' = IF keep /\ r.ret
                      THEN [secret |-> s, epoch |-> e, root |-> ctx.root]
                      ELSE built
          /\ last' = Call("generate_proof", ctx, input, 0, r.ret, r.out, -1)
    /\ UNCHANGED inserted

GenerateProof == GenerateProofWith({Epoch0}, {Digest0}, {0})

Verify ==
    /\ ctx.live
    /\ \E proof \in ProofCandidates(proof_buffer) :
       \E r \in {verify(ctx, proof, -1)} :
          /\ ctx' = r.ctx
          /\ last' = Call("verify", ctx, proof, 0, r.ret, NoBuffer, r.result)
    /\ UNCHANGED <<proof_buffer, built, inserted>>

HashWith(buffers, lens) ==
    /\ ctx.live
    /\ \E elems \in buffers, n \in lens :
       \E input \in {InputBuffer(WriteAll(elems))} :
       \E r \in {hash(ctx, input, n, NoBuffer)} :
          /\ ctx' = r.ctx
          /\ last' = Call("hash", ctx, input, n, r.ret, r.out, -1)
    /\ UNCHANGED <<proof_buffer, built, inserted>>

HashCall == HashWith({HashBuffer0}, HashLens0)

KeyGenWith(secrets) ==
    /\ ctx.live
    /\ \E s \in secrets, ok \in BOOLEAN :
       \E r \in {key_gen(ctx, NoBuffer, [ok |-> ok, secret |-> s])} :
          /\ ctx' = r.ctx
          /\ last' = Call("key_gen", ctx, NoBuffer, 0, r.ret, r.out, -1)
    /\ UNCHANGED <<proof_buffer, built, inserted>>

KeyGen == KeyGenWith({Secret0})

Next ==
    \/ NewCircuit
    \/ UpdateNext
    \/ GenerateProof
    \/ Verify
    \/ HashCall
    \/ KeyGen

Spec == Init /\ [][Next]_vars

\* The signals varied: every epoch, digest and blinding, on a tree of depth 1.
NewCircuitSmall == NewCircuitWith({1})

GenerateProofSignals == GenerateProofWith(Epochs, Digests, Blinds)

NextSignals ==
    \/ NewCircuitSmall
    \/ UpdateNext
    \/ GenerateProofSignals

SpecSignals == Init /\ [][NextSignals]_vars

\* The stateless utilities on every accumulator state.
HashAny == HashWith(HashBuffers, HashLens)

KeyGenAny == KeyGenWith(Secrets)

NextHash ==
    \/ NewCircuit
    \/ UpdateNext
    \/ HashAny
    \/ KeyGenAny

SpecHash == Init /\ [][NextHash]_vars

-----------------------------------------------------------------------------
(* Reading the callers' buffers back *)

Elements(buf, n) == read_inputs(SliceFrom(buf), n)

\* The secret and the epoch of a serialized signal (epoch, digest, secret).
SecretOf(signal) == Elements(signal, 3).elems[3]
EpochOf(signal) == Elements(signal, 3).elems[1]

Written(buf) == buf # NoBuffer

Capacity(rln) == Pow2(rln.depth)

\* The proof the caller holds, handed to verify as it is.
VerifiedHeld ==
    /\ last.op = "verify"
    /\ Written(proof_buffer)
    /\ last.input = proof_buffer

-----------------------------------------------------------------------------
(* Properties *)

\* C1: a generate_proof call whose secret's commitment Hasher(secret) is in
\* any filled slot returns true and writes a proof that verify, on the same
\* context, answers with true and result code 0; and a held proof verified
\* while the root is the one it was built under is accepted.
C1_MemberProofAccepted ==
    /\ (last.op = "generate_proof" /\ IsMember(ctx, SecretOf(last.input)))
          => /\ last.ret
             /\ Written(last.out)
             /\ verify(ctx, last.out, -1) = [ret |-> TRUE, result |-> 0, ctx |-> ctx]
    /\ (VerifiedHeld /\ built.root = ctx.root)
          => (last.ret /\ last.code = 0)

\* The tree of the largest depth is full, the prover's commitment is in its
\* last slot only, which is not the self-slot, and its held proof was accepted.
C1_Witness ==
    /\ VerifiedHeld
    /\ last.ret /\ last.code = 0
    /\ ctx.depth = MaxDepth
    /\ Len(inserted) = Capacity(ctx)
    /\ ctx.index + 1 # Capacity(ctx)
    /\ \A i \in 1..Capacity(ctx) :
          (ctx.slots[i] = Hasher(<<built.secret>>)) <=> (i = Capacity(ctx))

\* C2: verifying the held proof always returns true as a call, with result
\* code 0 exactly while the stored root is the root the proof was built under
\* and 1 otherwise; every successful update_next changes the root, and the
\* held proof built under the root before it is rejected after it.
C2_RootBinding ==
    /\ VerifiedHeld
          => /\ last.ret
             /\ last.code = (IF built.root = ctx.root THEN 0 ELSE 1)
    /\ (last.op = "update_next" /\ last.ret)
          => /\ ctx.root # last.pre.root
             /\ (Written(proof_buffer) /\ built.root = last.pre.root)
                   => verify(ctx, proof_buffer, -1) =
                         [ret |-> TRUE, result |-> 1, ctx |-> ctx]

\* A proof built when three commitments were in the tree is verified after a
\* fourth was inserted, and is rejected.
C2_Witness ==
    /\ VerifiedHeld
    /\ last.ret /\ last.code = 1
    /\ Len(inserted) = 4
    /\ built.root = MerkleRoot([i \in 1..Capacity(ctx) |->
                                   IF i <= 3 THEN inserted[i] ELSE EmptyLeaf])

\* C3: an update_next call returns true exactly when fewer than 2^D
\* insertions succeeded before it, so the first 2^D calls succeed and every
\* later one fails; a failing call leaves the context (leaf sequence and
\* root) as it was.
C3_Capacity ==
    last.op = "update_next"
       => /\ last.ret <=> Cardinality(FilledSlots(last.pre)) < Capacity(last.pre)
          /\ last.ret => Len(inserted) <= Capacity(ctx)
          /\ ~last.ret => (Len(inserted) = Capacity(ctx) /\ ctx = last.pre)

\* An insertion into the full tree of the largest depth has failed.
C3_Witness ==
    /\ last.op = "update_next"
    /\ ~last.ret
    /\ ctx.depth = MaxDepth
    /\ Len(inserted) = Capacity(ctx)

\* C4: a generate_proof call whose secret's commitment is no leaf returns
\* false and writes no proof; and whenever verify accepts, the proof is the
\* one held, built from a secret whose commitment is a leaf under the stored
\* root.
C4_NonMemberNoProof ==
    /\ (last.op = "generate_proof" /\ ~IsMember(ctx, SecretOf(last.input)))
          => (~last.ret /\ ~Written(last.out))
    /\ (last.op = "verify" /\ last.ret /\ last.code = 0)
          => /\ VerifiedHeld
             /\ IsMember(ctx, built.secret)
             /\ built.root = ctx.root

\* A non-member asked for a proof against a tree that holds another member.
C4_Witness ==
    /\ last.op = "generate_proof"
    /\ ~last.ret
    /\ FilledSlots(ctx) # {}
    /\ ~IsMember(ctx, SecretOf(last.input))

\* C5: the filled slots are exactly the first k, k the number of successful
\* insertions, the i-th of which is in slot i (index i-1); and no call
\* overwrites or empties a slot that was filled before it.
C5_ContiguousPrefix ==
    ctx.live
       => /\ FilledSlots(ctx) = 1..Len(inserted)
          /\ \A i \in 1..Len(inserted) : ctx.slots[i] = inserted[i]
          /\ last.pre.live
                => \A i \in FilledSlots(last.pre) : ctx.slots[i] = last.pre.slots[i]

\* A successful insertion of a commitment other than the first one, into a
\* tree that is neither empty before nor full after it.
C5_Witness ==
    /\ last.op = "update_next"
    /\ last.ret
    /\ Len(inserted) >= 2
    /\ Len(inserted) < Capacity(ctx)
    /\ inserted[Len(inserted)] # inserted[1]

\* C6: a call that returns false has not written its output parameter, and a
\* call that returns true has: the context handle, the proof, hash and keypair
\* buffers, and the result code of verify (0 or 1).
C6_OutputsOnSuccessOnly ==
    /\ last.op = "new_circuit_from_params" => (last.ret <=> ctx.live)
    /\ last.op \in {"generate_proof", "hash", "key_gen"}
          => (last.ret <=> Written(last.out))
    /\ last.op = "verify"
          => (IF last.ret THEN last.code \in {0, 1} ELSE last.code = -1)

\* verify has returned false for the held proof cut short by one byte.
C6_Witness ==
    /\ last.op = "verify"
    /\ ~last.ret
    /\ Written(proof_buffer)
    /\ last.input = [proof_buffer EXCEPT !.len = @ - 1]

\* C7: verify, hash, key_gen and generate_proof leave the context (leaves,
\* root, parameters, self-slot index) as it was, whether they succeed or
\* fail; the root of a context differs after a call only if the call was
\* update_next.
C7_ReadOnlyCalls ==
    /\ last.op \in {"verify", "hash", "key_gen", "generate_proof"}
          => ctx = last.pre
    /\ (last.pre.live /\ ctx.root # last.pre.root) => last.op = "update_next"

\* key_gen has succeeded on a tree that holds a member and has room left.
C7_Witness ==
    /\ last.op = "key_gen"
    /\ last.ret
    /\ FilledSlots(ctx) # {}
    /\ EmptySlots(ctx) # {}

\* The public inputs a proof exposes; the nullifier is the fourth element.
PublicOf(proof) == Elements(proof, 6)

\* C8: of two successful generate_proof calls (the one whose proof is held
\* and the latest) with the same secret, the exposed nullifiers are equal if
\* the epochs are equal and differ if the epochs differ, whatever the
\* digests, the blinding and the insertions in between.
C8_NullifierPerEpoch ==
    (last.op = "generate_proof" /\ last.ret /\ Written(proof_buffer)
        /\ SecretOf(last.input) = built.secret)
       => /\ PublicOf(proof_buffer).ok
          /\ PublicOf(last.out).ok
          /\ (PublicOf(last.out).elems[4] = PublicOf(proof_buffer).elems[4])
                <=> (EpochOf(last.input) = built.epoch)

\* Two proofs of one secret in one epoch that differ in digest, blinding and
\* root.
C8_Witness ==
    /\ last.op = "generate_proof" /\ last.ret /\ Written(proof_buffer)
    /\ SecretOf(last.input) = built.secret
    /\ EpochOf(last.input) = built.epoch
    /\ PublicOf(last.out).elems[5] # PublicOf(proof_buffer).elems[5]
    /\ PublicOf(last.out).elems[2] # PublicOf(proof_buffer).elems[2]
    /\ ctx.root # built.root

\* C9: the keypair a successful key_gen writes is exactly two elements,
\* secret then public, with public = Hasher(<<secret>>).
C9_KeyPair ==
    (last.op = "key_gen" /\ last.ret)
       => LET kp == Elements(last.out, 2)
          IN  /\ kp.ok
              /\ kp.elems[2] = Hasher(<<kp.elems[1]>>)
              /\ SliceFrom(last.out) = WriteAll(kp.elems)

\* A keypair generated on a context that holds members.
C9_Witness ==
    /\ last.op = "key_gen"
    /\ last.ret
    /\ Len(inserted) > 0

\* The number of elements a serialized input holds.
RECURSIVE Count(_)
Count(bytes) ==
    IF Len(bytes) = 0 THEN 0 ELSE 1 + Count(SubSeq(bytes, 2 + bytes[1], Len(bytes)))

\* C10: hash on a buffer of at least n elements returns true and writes the
\* Hasher of the first n elements in their order, in every context state;
\* with two distinct elements, the hash of the swapped pair is another value.
C10_HashReference ==
    (last.op = "hash" /\ Count(SliceFrom(last.input)) >= last.n)
       => LET es == Elements(last.input, last.n).elems
          IN  /\ last.ret
              /\ SliceFrom(last.out) = write_le(Hasher(es))
              /\ (last.n = 2 /\ es[1] # es[2])
                    => hash(ctx, InputBuffer(WriteAll(<<es[2], es[1]>>)), 2, NoBuffer).out
                          # last.out

\* The hash of two distinct elements, on a context that holds members.
C10_Witness ==
    /\ last.op = "hash"
    /\ last.ret
    /\ last.n = 2
    /\ Elements(last.input, 2).elems[1] # Elements(last.input, 2).elems[2]
    /\ Len(inserted) > 0

====
